---- MODULE Spec2Model ----
(***************************************************************************)
(* Model of MdKeyboardContainerComponent                                   *)
(* (src/src/keyboard-container.component.ts): the portal host that holds   *)
(* one attached component, the animation state bound to the '@state'       *)
(* trigger, the two Subjects onEnter / onExit, and the deferred exit       *)
(* finalisation on NgZone.onMicrotaskEmpty.                                *)
(*                                                                         *)
(* The collaborators of the component appear as far as the component uses  *)
(* them: the rxjs Subject (next / complete / subscribe), the inner         *)
(* PortalHostDirective (hasAttached / attachComponentPortal), Renderer2    *)
(* (addClass), the NgZone (onMicrotaskEmpty) and the animation engine that *)
(* reads the '@state' binding and calls back '(@state.done)'.              *)
(***************************************************************************)
EXTENDS Integers, Sequences, FiniteSets, TLC

\* ---------------------------------------------------------------- bounds
MaxSubs == 1        \* subscribers per Subject
MaxReports == 3     \* transitions the animation engine starts in one lifetime
MaxMicrotasks == 2  \* pending onMicrotaskEmpty.first() subscriptions

\* ------------------------------------------------------------- vocabulary
KeyboardState == {"initial", "visible", "complete", "void"}
Contents == {"X", "Y"}
Tags == {"dark", "debug"}
NoContent == "none"

VARIABLES
    animationState,   \* the '@state' host binding (line 58)
    onEnter,          \* Subject: [isStopped, subs]
    onExit,           \* Subject: [isStopped, subs]
    extraClasses,     \* keyboardConfig.extraClasses (a set; {} when unset)
    hostClasses,      \* classes on _elementRef.nativeElement
    attached,         \* the portal attached to _portalHost, or NoContent (the
                      \*   component never detaches what it attached)
    microtaskSubs,    \* pending onMicrotaskEmpty.first() subscriptions
    engineState,      \* the state value the animation engine rendered last
    elementRemoved,   \* the engine has seen the host element leave the DOM
    pendingReports,   \* started transitions whose done callback is undelivered
    callbackQueued,   \* the oldest one's done callback is a queued microtask
    destroyed,        \* ngOnDestroy has been called
    destroyedAgain,   \* history: ngOnDestroy has been called more than once
    attachOks,        \* history: number of attach calls that returned
    lastResult,       \* history: <<outcome, portal>> of the last attach call
    enterCalled,      \* history: enter() has been called
    exitCalled,       \* history: exit() has been called
    exitEarly,        \* history: exit() came after enter() and before any
                      \*          report into 'visible' was delivered
    reported,         \* history: the delivered reports <<fromState, toState>>
    fired             \* history: the signals in the order they fired

vars == <<animationState, onEnter, onExit, extraClasses, hostClasses, attached,
          microtaskSubs, engineState, elementRemoved, pendingReports,
          callbackQueued, destroyed, destroyedAgain, attachOks, lastResult,
          enterCalled, exitCalled, exitEarly, reported, fired>>

Range(s) == {s[i] : i \in DOMAIN s}

\* ------------------------------------------------------------ rxjs Subject
NewSubject == [isStopped |-> FALSE, subs |-> <<>>]

\* Subject.subscribe: a stopped Subject completes the new subscriber at once
\* and emits no value to it.
SubjectSubscribe(s) ==
    [s EXCEPT !.subs = Append(@, [nexts |-> 0,
                                  completes |-> IF s.isStopped THEN 1 ELSE 0])]

\* Subject.next: delivered to the current observers unless stopped.
SubjectNext(s) ==
    IF s.isStopped THEN s
    ELSE [s EXCEPT !.subs = [i \in DOMAIN @ |->
                                [@[i] EXCEPT !.nexts = @ + 1]]]

\* Subject.complete: completes the current observers and drops them.
SubjectComplete(s) ==
    IF s.isStopped THEN s
    ELSE [isStopped |-> TRUE,
          subs |-> [i \in DOMAIN s.subs |->
                       [s.subs[i] EXCEPT !.completes = @ + 1]]]

\* ------------------------------------------------------------------- init
Init ==
    /\ animationState = "initial"
    /\ onEnter = NewSubject
    /\ onExit = NewSubject
    /\ extraClasses \in {{}, Tags}
    /\ hostClasses = {}
    /\ attached = NoContent
    /\ microtaskSubs = 0
    /\ engineState = "void"
    /\ elementRemoved = FALSE
    /\ pendingReports = <<>>
    /\ callbackQueued = FALSE
    /\ destroyed = FALSE
    /\ destroyedAgain = FALSE
    /\ attachOks = 0
    /\ lastResult = <<"none", NoContent>>
    /\ enterCalled = FALSE
    /\ exitCalled = FALSE
    /\ exitEarly = FALSE
    /\ reported = <<>>
    /\ fired = <<>>

\* ------------------------------------------------------------ portal host
\* _portalHost.hasAttached()
hasAttached == attached # NoContent

\* mutant: the hasAttached() test is missing
AttachComponentPortalNoCheck(portal) ==
    /\ attachOks < 3
    /\ hostClasses' = hostClasses \cup extraClasses
    /\ attached' = portal
    /\ attachOks' = attachOks + 1
    /\ lastResult' = <<"ok", portal>>
    /\ UNCHANGED <<animationState, onEnter, onExit, extraClasses,
                   microtaskSubs, engineState, elementRemoved, pendingReports,
                   callbackQueued, destroyed, destroyedAgain, enterCalled,
                   exitCalled, exitEarly, reported, fired>>

\* mutant: the portal is stored before the hasAttached() test throws
AttachComponentPortalReplaces(portal) ==
    /\ IF hasAttached
       THEN /\ lastResult' = <<"MdKeyboardContentAlreadyAttached", portal>>
            /\ attached' = portal
            /\ UNCHANGED <<hostClasses, attachOks>>
       ELSE /\ hostClasses' = hostClasses \cup extraClasses
            /\ attached' = portal
            /\ attachOks' = attachOks + 1
            /\ lastResult' = <<"ok", portal>>
    /\ UNCHANGED <<animationState, onEnter, onExit, extraClasses,
                   microtaskSubs, engineState, elementRemoved, pendingReports,
                   callbackQueued, destroyed, destroyedAgain, enterCalled,
                   exitCalled, exitEarly, reported, fired>>

\* mutant: the addClass loop is missing
AttachComponentPortalNoClasses(portal) ==
    /\ IF hasAttached
       THEN /\ lastResult' = <<"MdKeyboardContentAlreadyAttached", portal>>
            /\ UNCHANGED <<hostClasses, attached, attachOks>>
       ELSE /\ hostClasses' = hostClasses
            /\ attached' = portal
            /\ attachOks' = attachOks + 1
            /\ lastResult' = <<"ok", portal>>
    /\ UNCHANGED <<animationState, onEnter, onExit, extraClasses,
                   microtaskSubs, engineState, elementRemoved, pendingReports,
                   callbackQueued, destroyed, destroyedAgain, enterCalled,
                   exitCalled, exitEarly, reported, fired>>

AttachComponentPortal(portal) ==
    /\ IF hasAttached
       THEN /\ lastResult' = <<"MdKeyboardContentAlreadyAttached", portal>>
            /\ UNCHANGED <<hostClasses, attached, attachOks>>
       ELSE /\ hostClasses' = hostClasses \cup extraClasses
            /\ attached' = portal
            /\ attachOks' = attachOks + 1
            /\ lastResult' = <<"ok", portal>>
    /\ UNCHANGED <<animationState, onEnter, onExit, extraClasses,
                   microtaskSubs, engineState, elementRemoved, pendingReports,
                   callbackQueued, destroyed, destroyedAgain, enterCalled,
                   exitCalled, exitEarly, reported, fired>>

NotImplemented == "Not yet implemented"

\* mutant: the template is attached and its classes applied before the throw
AttachTemplatePortalAttaches ==
    /\ lastResult' = <<NotImplemented, NoContent>>
    /\ attached' = IF hasAttached THEN attached ELSE "X"
    /\ hostClasses' = hostClasses \cup extraClasses
    /\ UNCHANGED <<animationState, onEnter, onExit, extraClasses,
                   microtaskSubs, engineState, elementRemoved, pendingReports,
                   callbackQueued, destroyed, destroyedAgain, attachOks,
                   enterCalled, exitCalled, exitEarly, reported, fired>>

AttachTemplatePortal ==
    /\ lastResult' = <<NotImplemented, NoContent>>
    /\ UNCHANGED <<animationState, onEnter, onExit, extraClasses, hostClasses,
                   attached, microtaskSubs, engineState, elementRemoved,
                   pendingReports, callbackQueued, destroyed, destroyedAgain,
                   attachOks, enterCalled, exitCalled, exitEarly, reported,
                   fired>>

\* -------------------------------------------------------- enter and exit
\* mutant: enter() in state 'visible' restarts the entrance from 'initial'
EnterRestarts ==
    /\ animationState' = IF animationState = "visible" THEN "initial"
                                                       ELSE "visible"
    /\ enterCalled' = TRUE
    /\ UNCHANGED <<onEnter, onExit, extraClasses, hostClasses, attached,
                   microtaskSubs, engineState, elementRemoved, pendingReports,
                   callbackQueued, destroyed, destroyedAgain, attachOks,
                   lastResult, exitCalled, exitEarly, reported, fired>>

Enter ==
    /\ animationState' = "visible"
    /\ enterCalled' = TRUE
    /\ UNCHANGED <<onEnter, onExit, extraClasses, hostClasses, attached,
                   microtaskSubs, engineState, elementRemoved, pendingReports,
                   callbackQueued, destroyed, destroyedAgain, attachOks,
                   lastResult, exitCalled, exitEarly, reported, fired>>

\* mutant: _onEnter() only returns the observable
OnEnterPure(subscribe) ==
    /\ subscribe => Len(onEnter.subs) < MaxSubs
    /\ onEnter' = IF subscribe THEN SubjectSubscribe(onEnter) ELSE onEnter
    /\ UNCHANGED <<animationState, onExit, extraClasses, hostClasses,
                   attached, microtaskSubs, engineState, elementRemoved,
                   pendingReports, callbackQueued, destroyed, destroyedAgain,
                   attachOks, lastResult, enterCalled, exitCalled, exitEarly,
                   reported, fired>>

\* _onEnter(): the caller may or may not subscribe to the returned observable
OnEnter(subscribe) ==
    /\ subscribe => Len(onEnter.subs) < MaxSubs
    /\ animationState' = "visible"
    /\ onEnter' = IF subscribe THEN SubjectSubscribe(onEnter) ELSE onEnter
    /\ UNCHANGED <<onExit, extraClasses, hostClasses, attached, microtaskSubs,
                   engineState, elementRemoved, pendingReports, callbackQueued,
                   destroyed, destroyedAgain, attachOks, lastResult,
                   enterCalled, exitCalled, exitEarly, reported, fired>>

\* _onExit(): returns onExit.asObservable(); modelled with its subscription
OnExit ==
    /\ Len(onExit.subs) < MaxSubs
    /\ onExit' = SubjectSubscribe(onExit)
    /\ UNCHANGED <<animationState, onEnter, extraClasses, hostClasses,
                   attached, microtaskSubs, engineState, elementRemoved,
                   pendingReports, callbackQueued, destroyed, destroyedAgain,
                   attachOks, lastResult, enterCalled, exitCalled, exitEarly,
                   reported, fired>>

ReportedInto(toStates) == {i \in DOMAIN reported : reported[i][2] \in toStates}

\* mutant: exit() on a destroyed host puts the state back to 'initial'
ExitResets(subscribe) ==
    /\ subscribe => Len(onExit.subs) < MaxSubs
    /\ animationState' = IF destroyed THEN "initial" ELSE "complete"
    /\ onExit' = IF subscribe THEN SubjectSubscribe(onExit) ELSE onExit
    /\ exitCalled' = TRUE
    /\ exitEarly' = (exitEarly \/ (enterCalled /\ ~exitCalled
                                    /\ ReportedInto({"visible"}) = {}))
    /\ UNCHANGED <<onEnter, extraClasses, hostClasses, attached, microtaskSubs,
                   engineState, elementRemoved, pendingReports, callbackQueued,
                   destroyed, destroyedAgain, attachOks, lastResult,
                   enterCalled, reported, fired>>

Exit(subscribe) ==
    /\ subscribe => Len(onExit.subs) < MaxSubs
    /\ animationState' = "complete"
    /\ onExit' = IF subscribe THEN SubjectSubscribe(onExit) ELSE onExit
    /\ exitCalled' = TRUE
    /\ exitEarly' = (exitEarly \/ (enterCalled /\ ~exitCalled
                                    /\ ReportedInto({"visible"}) = {}))
    /\ UNCHANGED <<onEnter, extraClasses, hostClasses, attached, microtaskSubs,
                   engineState, elementRemoved, pendingReports, callbackQueued,
                   destroyed, destroyedAgain, attachOks, lastResult,
                   enterCalled, reported, fired>>

\* ------------------------------------------------------ exit finalisation
\* mutant: the test for the exit forgets 'complete'
ExitsOnVoidOnly(toState) == toState = "void"

\* mutant: the test for the entrance names the wrong state
EntersOnInitial(toState) == toState = "initial"

\* mutant: the test for the exit takes 'initial' as well
ExitsOnInitialToo(toState) == toState \in {"void", "complete", "initial"}

ExitsOn(toState) == toState = "void" \/ toState = "complete"

EntersOn(toState) == toState = "visible"

\* _completeExit() calls that the queued done callback is going to make
QueuedExits ==
    IF callbackQueued /\ ExitsOn(Head(pendingReports)[2]) THEN 1 ELSE 0

\* A signal with the firing history: [subject, fired].
\* The callback body `s.next(); s.complete()`; a next() on a live Subject is a
\* firing of the signal.
NextThenComplete(c, sig) ==
    [subject |-> SubjectComplete(SubjectNext(c.subject)),
     fired |-> IF c.subject.isStopped THEN c.fired ELSE Append(c.fired, sig)]

\* mutant: the callback emits but never completes the Subject
NextWithoutComplete(c, sig) ==
    [subject |-> SubjectNext(c.subject),
     fired |-> IF c.subject.isStopped THEN c.fired ELSE Append(c.fired, sig)]

exitCallbackNoComplete(c) == NextWithoutComplete(c, "exited")

enterCallbackNoComplete(c) == NextWithoutComplete(c, "entered")

\* the subscriber of onMicrotaskEmpty.first(): onExit.next(); onExit.complete()
exitCallback(c) == NextThenComplete(c, "exited")

\* the _ngZone.run callback: onEnter.next(); onEnter.complete()
enterCallback(c) == NextThenComplete(c, "entered")

\* _completeExit(): one more onMicrotaskEmpty.first() subscription; every
\* subscription is the same closure over onExit
completeExit(subs) == subs + 1

\* mutant: ngOnDestroy forgets _completeExit()
NgOnDestroyNoCompleteExit ==
    /\ ~destroyed
    /\ destroyed' = TRUE
    /\ destroyedAgain' = destroyed
    /\ UNCHANGED <<animationState, onEnter, onExit, extraClasses, hostClasses,
                   attached, microtaskSubs, engineState, elementRemoved,
                   pendingReports, callbackQueued, attachOks, lastResult,
                   enterCalled, exitCalled, exitEarly, reported, fired>>

\* mutant: ngOnDestroy finalises onExit in its own step
NgOnDestroySync ==
    /\ ~destroyed
    /\ destroyed' = TRUE
    /\ destroyedAgain' = destroyed
    /\ LET c == exitCallback([subject |-> onExit, fired |-> fired])
       IN /\ onExit' = c.subject
          /\ fired' = c.fired
    /\ UNCHANGED <<animationState, onEnter, extraClasses, hostClasses,
                   attached, microtaskSubs, engineState, elementRemoved,
                   pendingReports, callbackQueued, attachOks, lastResult,
                   enterCalled, exitCalled, exitEarly, reported>>

\* mutant: a repeated ngOnDestroy re-opens the finalised onExit
NgOnDestroyReopens ==
    /\ microtaskSubs + QueuedExits < MaxMicrotasks
    /\ destroyed' = TRUE
    /\ destroyedAgain' = destroyed
    /\ microtaskSubs' = completeExit(microtaskSubs)
    /\ onExit' = IF destroyed THEN [onExit EXCEPT !.isStopped = FALSE]
                              ELSE onExit
    /\ UNCHANGED <<animationState, onEnter, extraClasses, hostClasses,
                   attached, engineState, elementRemoved, pendingReports,
                   callbackQueued, attachOks, lastResult, enterCalled,
                   exitCalled, exitEarly, reported, fired>>

NgOnDestroy ==
    /\ microtaskSubs + QueuedExits < MaxMicrotasks
    /\ destroyed' = TRUE
    /\ destroyedAgain' = destroyed
    /\ microtaskSubs' = completeExit(microtaskSubs)
    /\ UNCHANGED <<animationState, onEnter, onExit, extraClasses, hostClasses,
                   attached, engineState, elementRemoved, pendingReports,
                   callbackQueued, attachOks, lastResult, enterCalled,
                   exitCalled, exitEarly, reported, fired>>

RECURSIVE RunSubscribers(_, _)
RunSubscribers(c, n) ==
    IF n = 0 THEN c ELSE RunSubscribers(exitCallback(c), n - 1)

\* onMicrotaskEmpty emits, which the zone does only with no microtask queued:
\* every pending first() subscription runs its callback and is gone.
MicrotaskEmpty ==
    /\ ~callbackQueued
    /\ microtaskSubs > 0
    /\ LET c == RunSubscribers([subject |-> onExit, fired |-> fired],
                               microtaskSubs)
       IN /\ onExit' = c.subject
          /\ fired' = c.fired
    /\ microtaskSubs' = 0
    /\ UNCHANGED <<animationState, onEnter, extraClasses, hostClasses,
                   attached, engineState, elementRemoved, pendingReports,
                   callbackQueued, destroyed, destroyedAgain, attachOks,
                   lastResult, enterCalled, exitCalled, exitEarly, reported>>

\* ------------------------------------------------------- animation engine
Started == Len(pendingReports) + Len(reported)

\* change detection: the engine sees a new value of the '@state' binding and
\* starts the transition; its done callback is owed.  A destroyed view is not
\* checked any more.
Render ==
    /\ ~destroyed
    /\ animationState # engineState
    /\ Started < MaxReports
    /\ pendingReports' = Append(pendingReports, <<engineState, animationState>>)
    /\ engineState' = animationState
    /\ UNCHANGED <<animationState, onEnter, onExit, extraClasses, hostClasses,
                   attached, microtaskSubs, elementRemoved, callbackQueued,
                   destroyed, destroyedAgain, attachOks, lastResult,
                   enterCalled, exitCalled, exitEarly, reported, fired>>

\* the destroyed host element leaves the DOM: transition to 'void'
RenderRemove ==
    /\ destroyed
    /\ ~elementRemoved
    /\ engineState # "void"
    /\ Started < MaxReports
    /\ pendingReports' = Append(pendingReports, <<engineState, "void">>)
    /\ engineState' = "void"
    /\ elementRemoved' = TRUE
    /\ UNCHANGED <<animationState, onEnter, onExit, extraClasses, hostClasses,
                   attached, microtaskSubs, callbackQueued, destroyed,
                   destroyedAgain, attachOks, lastResult, enterCalled,
                   exitCalled, exitEarly, reported, fired>>

\* the engine ends the oldest transition (finished or cut short) and queues
\* its done callback as a microtask of the zone
QueueCallback ==
    /\ pendingReports # <<>>
    /\ ~callbackQueued
    /\ ExitsOn(Head(pendingReports)[2]) => microtaskSubs < MaxMicrotasks
    /\ callbackQueued' = TRUE
    /\ UNCHANGED <<animationState, onEnter, onExit, extraClasses, hostClasses,
                   attached, microtaskSubs, engineState, elementRemoved,
                   pendingReports, destroyed, destroyedAgain, attachOks,
                   lastResult, enterCalled, exitCalled, exitEarly, reported,
                   fired>>

\* the AnimationEvent handed to the done callback; didFinish tells whether
\* the transition ran to its end or was cut short
Event(report, didFinish) ==
    [fromState |-> report[1], toState |-> report[2], didFinish |-> didFinish]

\* mutant: the handler ignores the event of a transition that was cut short
onAnimationEndFinishedOnly(event) ==
    LET c == IF event.didFinish /\ EntersOn(event.toState)
             THEN enterCallback([subject |-> onEnter, fired |-> fired])
             ELSE [subject |-> onEnter, fired |-> fired]
    IN [onEnter |-> c.subject,
        onExit |-> onExit,
        fired |-> c.fired,
        microtaskSubs |-> IF event.didFinish /\ ExitsOn(event.toState)
                          THEN completeExit(microtaskSubs)
                          ELSE microtaskSubs,
        animationState |-> animationState]

\* mutant: the entrance report schedules an exit finalisation as well
onAnimationEndExitsOnVisible(event) ==
    LET c == IF EntersOn(event.toState)
             THEN enterCallback([subject |-> onEnter, fired |-> fired])
             ELSE [subject |-> onEnter, fired |-> fired]
    IN [onEnter |-> c.subject,
        onExit |-> onExit,
        fired |-> c.fired,
        microtaskSubs |-> IF ExitsOn(event.toState) \/ EntersOn(event.toState)
                          THEN completeExit(microtaskSubs)
                          ELSE microtaskSubs,
        animationState |-> animationState]

\* onAnimationEnd(event): what the handler makes of the component's state
onAnimationEnd(event) ==
    LET c == IF EntersOn(event.toState)
             THEN enterCallback([subject |-> onEnter, fired |-> fired])
             ELSE [subject |-> onEnter, fired |-> fired]
    IN [onEnter |-> c.subject,
        onExit |-> onExit,
        fired |-> c.fired,
        microtaskSubs |-> IF ExitsOn(event.toState)
                          THEN completeExit(microtaskSubs)
                          ELSE microtaskSubs,
        animationState |-> animationState]

\* the queued done callback runs onAnimationEnd(event)
OnAnimationEnd ==
    /\ callbackQueued
    /\ \E didFinish \in BOOLEAN :
          LET r == onAnimationEnd(Event(Head(pendingReports), didFinish))
          IN /\ microtaskSubs' = r.microtaskSubs
             /\ onEnter' = r.onEnter
             /\ onExit' = r.onExit
             /\ fired' = r.fired
             /\ animationState' = r.animationState
    /\ reported' = Append(reported, Head(pendingReports))
    /\ pendingReports' = Tail(pendingReports)
    /\ callbackQueued' = FALSE
    /\ UNCHANGED <<extraClasses, hostClasses, attached, engineState,
                   elementRemoved, destroyed, destroyedAgain, attachOks,
                   lastResult, enterCalled, exitCalled, exitEarly>>

\* ------------------------------------------------------------------- next
Next ==
    \/ \E portal \in Contents : AttachComponentPortal(portal)
    \/ AttachTemplatePortal
    \/ Enter
    \/ \E subscribe \in BOOLEAN : OnEnter(subscribe)
    \/ OnExit
    \/ \E subscribe \in BOOLEAN : Exit(subscribe)
    \/ NgOnDestroy
    \/ MicrotaskEmpty
    \/ Render
    \/ RenderRemove
    \/ QueueCallback
    \/ OnAnimationEnd

Spec == Init /\ [][Next]_vars

\* The lifecycle alone.  The attach operations leave every variable of the
\* lifecycle unchanged, and the lifecycle never reads what they change.
LifecycleNext ==
    \/ Enter
    \/ \E subscribe \in BOOLEAN : OnEnter(subscribe)
    \/ OnExit
    \/ \E subscribe \in BOOLEAN : Exit(subscribe)
    \/ NgOnDestroy
    \/ MicrotaskEmpty
    \/ Render
    \/ RenderRemove
    \/ QueueCallback
    \/ OnAnimationEnd

\* the lifecycle reads nothing of the configuration; one value of it is kept
LifecycleInit ==
    /\ Init
    /\ extraClasses = Tags

LifecycleSpec == LifecycleInit /\ [][LifecycleNext]_vars

\* the zone runs the microtasks queued in it and emits onMicrotaskEmpty
\* whenever its queue has drained
FairSpec ==
    /\ LifecycleSpec
    /\ WF_vars(OnAnimationEnd)
    /\ WF_vars(MicrotaskEmpty)

\* The attach operations among every operation and event that changes the
\* state of the host; the observers' subscriptions, which change nothing but
\* the subscriber lists, are left out.
AttachNext ==
    \/ \E portal \in Contents : AttachComponentPortal(portal)
    \/ AttachTemplatePortal
    \/ Enter
    \/ OnEnter(FALSE)
    \/ Exit(FALSE)
    \/ NgOnDestroy
    \/ MicrotaskEmpty
    \/ Render
    \/ RenderRemove
    \/ QueueCallback
    \/ OnAnimationEnd

AttachSpec == Init /\ [][AttachNext]_vars

\* ================================================================ claims
Count(seq, x) == Cardinality({i \in DOMAIN seq : seq[i] = x})

Fired(sig) == sig \in Range(fired)

\* an exit finalisation has been asked for: by ngOnDestroy, or by a report
\* into 'complete' or 'void'
ExitRequested == destroyed \/ ReportedInto({"complete", "void"}) # {}

\* C1: the exited signal fires at most once in every reachable state (no
\* subscriber of onExit gets more than one value or more than one completion),
\* and it has fired exactly once as soon as an exit finalisation was asked for
\* (a report into 'complete'/'void' after exit(), or ngOnDestroy with or
\* without exit(), with or without any report) and the zone has emitted
\* onMicrotaskEmpty since.
C1_ExitedExactlyOnce ==
    /\ Count(fired, "exited") <= 1
    /\ \A i \in DOMAIN onExit.subs :
          onExit.subs[i].nexts <= 1 /\ onExit.subs[i].completes <= 1
    /\ (ExitRequested /\ microtaskSubs = 0) =>
          /\ Count(fired, "exited") = 1
          /\ onExit.isStopped
          /\ \A i \in DOMAIN onExit.subs : onExit.subs[i].completes = 1

\* scenario (c): exit() called, the report into 'complete' still owed by the
\* engine, the host destroyed, the queue drained: the subscriber got one value
C1_Witness ==
    /\ exitCalled /\ destroyed /\ microtaskSubs = 0
    /\ ReportedInto({"complete", "void"}) = {}
    /\ \E i \in DOMAIN pendingReports : pendingReports[i][2] = "complete"
    /\ onExit.subs = <<[nexts |-> 1, completes |-> 1]>>
    /\ Count(fired, "exited") = 1

\* C2: once ngOnDestroy has been called the exited signal eventually fires and
\* every subscriber of onExit is completed, provided only that the zone goes
\* on emitting onMicrotaskEmpty (FairSpec); neither exit() nor any report of
\* the animation engine is needed.
C2_DestroyLeadsToExited ==
    destroyed ~> (/\ Fired("exited")
                  /\ onExit.isStopped
                  /\ \A i \in DOMAIN onExit.subs : onExit.subs[i].completes = 1)

\* destroyed without exit() and without any report, and the subscriber notified
C2_Witness ==
    /\ destroyed /\ ~exitCalled /\ reported = <<>>
    /\ Fired("exited")
    /\ onExit.subs = <<[nexts |-> 1, completes |-> 1]>>

\* C3: every subscriber of onEnter, whenever it subscribed, holds exactly one
\* terminal notification (its completion) once a report into 'visible' has been
\* delivered and none before; no subscriber ever gets more than one value,
\* however often enter() is called and 'visible' is reported.
C3_EnteredSubscribers ==
    \A i \in DOMAIN onEnter.subs :
        /\ onEnter.subs[i].nexts <= 1
        /\ onEnter.subs[i].completes =
              IF ReportedInto({"visible"}) # {} THEN 1 ELSE 0

\* 'visible' reported twice to a subscriber that subscribed before the first
C3_Witness ==
    /\ enterCalled
    /\ Cardinality(ReportedInto({"visible"})) >= 2
    /\ onEnter.subs = <<[nexts |-> 1, completes |-> 1]>>

AlreadyAttached == "MdKeyboardContentAlreadyAttached"

\* C4: at most one attachComponentPortal call returns; the portal host holds a
\* portal exactly when one call has returned, the portal it holds is the one
\* of that call, and a call is answered MdKeyboardContentAlreadyAttached only
\* when a portal is attached; whatever else has happened to the host.
C4_AtMostOneAttach ==
    /\ attachOks <= 1
    /\ hasAttached <=> attachOks = 1
    /\ lastResult[1] = "ok" => lastResult[2] = attached
    /\ lastResult[1] = AlreadyAttached => hasAttached

\* a second attach refused on a host that entered, exited and was destroyed
C4_Witness ==
    /\ attachOks = 1
    /\ lastResult[1] = AlreadyAttached
    /\ destroyed /\ Fired("entered") /\ Fired("exited")

\* C5: an attachComponentPortal call on a host that already holds a portal
\* throws MdKeyboardContentAlreadyAttached and changes nothing: the attached
\* portal, the classes of the host element, the animation state, both
\* Subjects and the pending exit finalisations stay as they were.
C5_FailedAttachChangesNothing ==
    [][\A portal \in Contents :
          (hasAttached /\ AttachComponentPortal(portal)) =>
              /\ lastResult' = <<AlreadyAttached, portal>>
              /\ UNCHANGED <<attached, hostClasses, attachOks, animationState,
                             onEnter, onExit, microtaskSubs, fired>>]_vars

\* attach(X) then attach(Y): Y refused, X attached, the classes those that
\* X's attach added
C5_Witness ==
    /\ attached = "X"
    /\ lastResult = <<AlreadyAttached, "Y">>
    /\ hostClasses = Tags

\* C6: the entered signal has fired only if enter() has been called.
C6_EnteredOnlyAfterEnter == Fired("entered") => enterCalled

\* the reports of the transitions asked for through the binding: all but the
\* first rendering of 'initial'
RequestedReports == SelectSeq(reported, LAMBDA r : r[2] # "initial")

C7_Scenario ==
    /\ enterCalled /\ exitEarly /\ ~destroyed
    /\ RequestedReports =
          << <<"initial", "visible">>, <<"visible", "complete">> >>

\* C7: after enter(), then exit() before any report into 'visible', then the
\* reports (initial, visible) and (visible, complete) in this order, entered
\* has fired once and first; exited has not fired before the zone emits
\* onMicrotaskEmpty and has fired once, second, as soon as it has emitted,
\* wherever else the zone emitted; no subscriber got more than one value.
C7_EnteredThenExited ==
    C7_Scenario =>
        /\ fired = IF microtaskSubs = 0 THEN <<"entered", "exited">>
                                         ELSE <<"entered">>
        /\ \A i \in DOMAIN onEnter.subs : onEnter.subs[i].nexts <= 1
        /\ \A i \in DOMAIN onExit.subs : onExit.subs[i].nexts <= 1

C7_Witness ==
    /\ C7_Scenario
    /\ fired = <<"entered", "exited">>
    /\ onEnter.subs = <<[nexts |-> 1, completes |-> 1]>>
    /\ onExit.subs = <<[nexts |-> 1, completes |-> 1]>>

First(S) == CHOOSE i \in S : \A j \in S : i <= j

VisibleReports == ReportedInto({"visible"})
ExitReports == ReportedInto({"complete", "void"})

C9_NoFinalizeWhileReportPending ==
    (Fired("exited") /\ destroyed /\ ExitReports = {}) =>
        \A i \in DOMAIN pendingReports :
            pendingReports[i][2] \notin {"visible", "complete"}

PermittedSteps ==
    {<<"initial", "visible">>, <<"visible", "complete">>,
     <<"complete", "visible">>}

\* C10: every change of animationState is initial -> visible,
\* visible -> complete, or the re-entry complete -> visible.
C10_NoSkippedState ==
    [][animationState' # animationState =>
          <<animationState, animationState'>> \in PermittedSteps]_vars

\* C11: a repeated ngOnDestroy fires nothing in its own step and leaves onExit
\* as it was, and on a host destroyed more than once exited still fires at
\* most once, every subscriber of onExit gets at most one value and one
\* completion, and exactly one once the zone has emitted onMicrotaskEmpty
\* after the last call; the same as after one ngOnDestroy, whether the
\* repeated call came before or after the first finalisation ran.
C11_DestroyTwiceFinalisesOnce ==
    /\ [](destroyedAgain =>
            /\ Count(fired, "exited") <= 1
            /\ \A i \in DOMAIN onExit.subs :
                  onExit.subs[i].nexts <= 1 /\ onExit.subs[i].completes <= 1
            /\ microtaskSubs = 0 =>
                  /\ Count(fired, "exited") = 1
                  /\ \A i \in DOMAIN onExit.subs :
                        onExit.subs[i].completes = 1)
    /\ [][(destroyed /\ NgOnDestroy) =>
             UNCHANGED <<fired, onEnter, onExit, animationState>>]_vars

\* ngOnDestroy twice with no report into 'complete' or 'void', the zone
\* drained: the subscriber of onExit holds one value and one completion
C11_Witness ==
    /\ destroyedAgain /\ microtaskSubs = 0 /\ ExitReports = {}
    /\ onExit.subs = <<[nexts |-> 1, completes |-> 1]>>
    /\ fired = <<"exited">>

\* C12: every attachTemplatePortal call throws 'Not yet implemented' and
\* changes nothing: the attached portal, the classes of the host element, the
\* animation state, both Subjects and the pending exit finalisations stay as
\* they were; and an attachComponentPortal call on a host that holds no portal
\* returns with its portal attached, whatever attachTemplatePortal calls came
\* before it.
C12_TemplateAttachFails ==
    [][/\ AttachTemplatePortal =>
            /\ lastResult' = <<NotImplemented, NoContent>>
            /\ UNCHANGED <<attached, hostClasses, attachOks, animationState,
                           onEnter, onExit, microtaskSubs, fired>>
       /\ \A portal \in Contents :
            (~hasAttached /\ AttachComponentPortal(portal)) =>
                /\ lastResult' = <<"ok", portal>>
                /\ attached' = portal]_vars

\* attachTemplatePortal has thrown on a host with classes configured that has
\* gone through its lifecycle: nothing is attached, no class was added
C12_Witness ==
    /\ lastResult = <<NotImplemented, NoContent>>
    /\ ~hasAttached /\ attachOks = 0
    /\ extraClasses = Tags /\ hostClasses = {}
    /\ destroyed /\ Fired("entered") /\ Fired("exited")

C14_ExitedOnlyAtDrain ==
    /\ [][(\/ Count(fired', "exited") > Count(fired, "exited")
           \/ onExit'.isStopped # onExit.isStopped) =>
              (MicrotaskEmpty /\ ExitRequested)]_vars
    /\ [](Fired("exited") => ExitRequested)
    /\ []((exitCalled /\ ~ExitRequested) => ~onExit.isStopped)

\* exit() and its report into 'complete' on a host never destroyed, then the
\* emission: exited has fired, alone
C14_Witness ==
    /\ exitCalled /\ ~destroyed /\ ~enterCalled
    /\ ExitReports # {} /\ VisibleReports = {}
    /\ microtaskSubs = 0
    /\ fired = <<"exited">>
    /\ onExit.isStopped

\* C15: a done callback never changes animationState, whatever its toState;
\* and one whose toState is none of 'visible', 'complete', 'void' changes
\* nothing of the component: neither Subject, nothing a subscriber holds, no
\* firing, no exit finalisation scheduled.
C15_OtherReportsIgnored ==
    [][OnAnimationEnd =>
          /\ animationState' = animationState
          /\ Head(pendingReports)[2] \notin {"visible", "complete", "void"} =>
                UNCHANGED <<onEnter, onExit, fired, microtaskSubs>>]_vars

\* the report (void, initial) delivered with a subscriber on each Subject:
\* nothing fired, nothing scheduled (the entrance asked for only afterwards)
C15_Witness ==
    /\ reported = << <<"void", "initial">> >>
    /\ onEnter.subs = <<[nexts |-> 0, completes |-> 0]>>
    /\ onExit.subs = <<[nexts |-> 0, completes |-> 0]>>
    /\ pendingReports = << <<"initial", "visible">> >>
    /\ fired = <<>>
    /\ microtaskSubs = 0

\* C16: a report into 'visible' leaves onEnter finalised and touches neither
\* onExit nor the pending exit finalisations; a report into 'complete' or
\* 'void', and ngOnDestroy, schedule one exit finalisation and touch neither
\* onEnter nor the firing history; the emission of onMicrotaskEmpty never
\* touches onEnter nor fires entered.  A report into 'visible' on a
\* finalised onEnter, and an emission on a finalised onExit, hand nothing to
\* anybody.
C16_SignalsIndependent ==
    [][/\ OnAnimationEnd =>
            /\ Head(pendingReports)[2] = "visible" =>
                  /\ onEnter'.isStopped
                  /\ UNCHANGED <<onExit, microtaskSubs>>
                  /\ Count(fired', "exited") = Count(fired, "exited")
                  /\ onEnter.isStopped => UNCHANGED <<onEnter, fired>>
            /\ Head(pendingReports)[2] \in {"complete", "void"} =>
                  /\ microtaskSubs' = microtaskSubs + 1
                  /\ UNCHANGED <<onEnter, onExit, fired>>
       /\ NgOnDestroy =>
            /\ microtaskSubs' = microtaskSubs + 1
            /\ UNCHANGED <<onEnter, onExit, fired>>
       /\ MicrotaskEmpty =>
            /\ UNCHANGED onEnter
            /\ Count(fired', "entered") = Count(fired, "entered")
            /\ onExit'.isStopped
            /\ onExit.isStopped => UNCHANGED <<onExit, fired>>]_vars

\* two reports into 'visible' around one into 'complete', all delivered and
\* the zone drained: each signal fired once, each subscriber notified once
C16_Witness ==
    /\ ~destroyed
    /\ Cardinality(VisibleReports) = 2
    /\ Cardinality(ExitReports) = 1
    /\ microtaskSubs = 0
    /\ onEnter.subs = <<[nexts |-> 1, completes |-> 1]>>
    /\ onExit.subs = <<[nexts |-> 1, completes |-> 1]>>
    /\ Count(fired, "entered") = 1 /\ Count(fired, "exited") = 1

\* C17: enter() leaves the state 'visible', hands nothing to any subscriber,
\* fires nothing and schedules nothing; called in state 'visible' it changes
\* nothing at all of the component, so the animation engine is given no new
\* transition to report.
C17_EnterIdempotent ==
    [][Enter =>
          /\ animationState' = "visible"
          /\ UNCHANGED <<onEnter, onExit, fired, microtaskSubs>>
          /\ animationState = "visible" =>
                UNCHANGED <<animationState, onEnter, onExit, hostClasses,
                            attached, microtaskSubs, engineState,
                            pendingReports, callbackQueued, fired>>]_vars

\* after enter() and the firing of entered, in state 'visible': enter() can
\* be called again and leaves the state, the subscriber's one notification
\* and the engine as they are
C17_Witness ==
    /\ enterCalled
    /\ ENABLED (Enter /\ UNCHANGED <<animationState, onEnter, fired,
                                      engineState, pendingReports>>)
    /\ animationState = "visible" /\ engineState = "visible"
    /\ ~exitCalled /\ ~destroyed
    /\ pendingReports = <<>>
    /\ fired = <<"entered">>
    /\ onEnter.subs = <<[nexts |-> 1, completes |-> 1]>>

C19_OnEnterSetsVisible ==
    [][/\ (\E subscribe \in BOOLEAN : OnEnter(subscribe)) =>
            /\ animationState' = "visible"
            /\ UNCHANGED <<fired, onExit, microtaskSubs, engineState>>
            /\ engineState # "visible" => animationState' # engineState'
       /\ Enter =>
            /\ animationState' = "visible"
            /\ UNCHANGED <<fired, onExit, microtaskSubs, engineState>>]_vars

\* enter() never called: exit() made the state 'complete', _onEnter() with a
\* subscription made it 'visible' again, the engine ran complete -> visible
\* and the subscriber was notified
C19_Witness ==
    /\ ~enterCalled /\ exitCalled /\ ~destroyed
    /\ animationState = "visible"
    /\ <<"complete", "visible">> \in Range(reported)
    /\ onEnter.subs = <<[nexts |-> 1, completes |-> 1]>>
    /\ Fired("entered")

\* C20: animationState is always one of 'initial', 'visible', 'complete'
\* (never 'void'); once it is not 'initial' it never is again; and in every
\* state, a destroyed host with both signals fired included, enter() can be
\* called and leaves it 'visible', exit() can be called and leaves it
\* 'complete'.
C20_StateRange ==
    /\ [](animationState \in {"initial", "visible", "complete"})
    /\ [](/\ ENABLED (Enter /\ animationState' = "visible")
          /\ ENABLED (Exit(FALSE) /\ animationState' = "complete"))
    /\ [][/\ animationState # "initial" => animationState' # "initial"
          /\ Enter => animationState' = "visible"
          /\ (\E subscribe \in BOOLEAN : Exit(subscribe)) =>
               animationState' = "complete"]_vars

\* a destroyed host, its element removed, both signals fired, in state
\* 'complete': enter() can still be called and makes the state 'visible'
C20_Witness ==
    /\ destroyed /\ elementRemoved
    /\ Fired("entered") /\ Fired("exited")
    /\ animationState = "complete"
    /\ ENABLED (Enter /\ animationState' = "visible")

====
